---- MODULE Spec2Model ----
(***************************************************************************)
(* A model of signet.js: the Bitcoin adapter's handleTransaction (PSBT     *)
(* assembly, sequential MPC signing, broadcast), the EVM adapter's         *)
(* transaction store and addSignature, and the signature utilities.        *)
(*                                                                         *)
(* Hex strings are sequences of hex digits (0..15), buffers are sequences  *)
(* of bytes (0..255).  JavaScript runs each continuation to completion, so *)
(* one action is the code between two awaits.                              *)
(***************************************************************************)
EXTENDS Integers, Sequences, FiniteSets, TLC

VARIABLES
    pc,            \* per handleTransaction call: where the call is suspended
    inputs,        \* per call: data.inputs, the request's UTXO list
    outputs,       \* per call: data.outputs
    fetch,         \* per call: state of each fetchTransaction promise
    psbt,          \* per call: the bitcoin.Psbt being assembled
    index,         \* per call: the signing loop's counter
    signing,       \* per call: the hash handed to the signer and not yet answered
    txHex,         \* per call: the serialized transaction given to sendTransaction
    result,        \* per call: what the returned promise settled to
    trace,         \* per call: collaborator calls and their outcomes (history)
    adapters,      \* the EVM adapter instances that exist
    localStorage,  \* window.localStorage: storage key -> serialized text
    stored,        \* per key: the transaction last passed to setTransaction (history)
    own,           \* per adapter, per key: what that adapter alone stored (history)
    touched,       \* per adapter: keys it has written or removed (history)
    lastOp,        \* the last store call and what it returned (history)
    rsvIn, rsvOut, \* parseRSVSignature: argument and outcome
    najIn, najOut, \* najToPubKey: arguments and outcome
    addIn, addOut  \* EVM.addSignature: arguments and outcome

btcVars == <<pc, inputs, outputs, fetch, psbt, index, signing, txHex, result, trace>>
storeVars == <<adapters, localStorage, stored, own, touched, lastOp>>
pureVars == <<rsvIn, rsvOut, najIn, najOut, addIn, addOut>>
vars == <<btcVars, storeVars, pureVars>>

(***************************************************************************)
(* Bounds of the model.                                                    *)
(***************************************************************************)
MaxInputs == 3      \* UTXOs of a request when one call runs alone
ConcInputs == 1     \* UTXOs of each request when two calls run concurrently
MaxHexLen == 66     \* longest r / s hex string given to parseRSVSignature
MaxKeyLen == 65     \* longest decoded NAJ key, in bytes
MaxSigs == 2        \* longest mpcSignatures list given to addSignature

(***************************************************************************)
(* Program constants.                                                      *)
(***************************************************************************)
SigHexLen == 64     \* padStart(64, '0')
SigByteLen == 64    \* rawSignature.length !== 64
KeyHexLen == 128    \* pubKeyHex.length !== 128
CoordHexLen == 64   \* pubKeyHex.slice(0, 64) / slice(64)

(***************************************************************************)
(* Hex strings and buffers.                                                *)
(***************************************************************************)
\* String.prototype.padStart(n, '0')
PadStart(s, n) ==
    IF Len(s) >= n THEN s ELSE [i \in 1..(n - Len(s)) |-> 0] \o s

\* Buffer.from(h, 'hex'): two digits per byte, a trailing odd digit is dropped
BufferFromHex(h) ==
    [i \in 1..(Len(h) \div 2) |-> 16 * h[2 * i - 1] + h[2 * i]]

\* Buffer.prototype.toString('hex')
BufferToHex(b) ==
    [i \in 1..(2 * Len(b)) |->
        IF i % 2 = 1 THEN b[(i + 1) \div 2] \div 16 ELSE b[i \div 2] % 16]

\* String.prototype.slice(from) / slice(from, to), 0-based, to exclusive
Slice(s, from, to) ==
    LET t == IF to > Len(s) THEN Len(s) ELSE to
    IN  IF from >= t THEN <<>> ELSE SubSeq(s, from + 1, t)

Thrown(msg) == [ok |-> FALSE, val |-> <<>>, err |-> msg]
Returned(v) == [ok |-> TRUE, val |-> v, err |-> ""]
Pending == [ok |-> FALSE, val |-> <<>>, err |-> "pending"]

\* A hex string of a given length whose digits depend on a seed
HexOf(len, seed) == [i \in 1..len |-> (seed + i) % 16]

(***************************************************************************)
(* signature/utils.ts: toRSV                                               *)
(***************************************************************************)
toRSV(signature) ==
    [r |-> Slice(signature.big_r.affine_point, 2, Len(signature.big_r.affine_point)),
     s |-> signature.s.scalar,
     v |-> signature.recovery_id]

(***************************************************************************)
(* Bitcoin.parseRSVSignature                                               *)
(***************************************************************************)
parseRSVSignature(signature) ==
    LET r == PadStart(signature.r, SigHexLen)
        s == PadStart(signature.s, SigHexLen)
        rawSignature == BufferFromHex(r \o s)
    IN  IF Len(rawSignature) # SigByteLen
        THEN Thrown("Invalid signature length.")
        ELSE Returned(rawSignature)

(***************************************************************************)
(* Bitcoin.handleTransaction                                               *)
(***************************************************************************)
Requests == {1, 2}

NoSig == <<>>
NoHash == [txid |-> 0, vout |-> 0, at |-> 0, prevouts |-> <<>>, outs |-> <<>>,
           script |-> <<>>, value |-> 0]
NoTx == [ins |-> <<>>, outs |-> <<>>]
EmptyPsbt == [ins |-> <<>>, outs |-> <<>>]

\* The derived P2WPKH address of the caller
OwnAddress == "own"

\* data.inputs of request q: n distinct UTXOs
UTXOs(q, n) == [i \in 1..n |-> [txid |-> 10 * q + i, vout |-> i - 1, value |-> 100 * i]]

\* data.outputs: a script output, an address output, an output without address
OutputChoices ==
    { <<[kind |-> "script", to |-> "scr", value |-> 50]>>,
      <<[kind |-> "address", to |-> "dest", value |-> 50],
        [kind |-> "address", to |-> "", value |-> 40]>> }

\* fetchTransaction(txid): the provider's transaction, of which only outs is read
PrevTx(txid) == [outs |-> [v \in 0..3 |-> [script |-> <<"p2wpkh", txid, v>>]]]

\* the inputOptions of one UTXO, as psbt.addInput stores them
InputOf(utxo) ==
    LET transaction == PrevTx(utxo.txid)
        prevOut == transaction.outs[utxo.vout]
    IN  [hash |-> utxo.txid, index |-> utxo.vout,
         witnessUtxo |-> [script |-> prevOut.script, value |-> utxo.value],
         partialSig |-> NoSig, finalized |-> FALSE]

\* outputs.forEach(... psbt.addOutput ...)
AddOutputs(p, outs) ==
    [p EXCEPT !.outs =
        [i \in 1..Len(outs) |->
            IF outs[i].kind = "script"
            THEN [script |-> outs[i].to, value |-> outs[i].value]
            ELSE [address |-> IF outs[i].to # "" THEN outs[i].to ELSE OwnAddress,
                  value |-> outs[i].value]]]

\* The BIP-143 signing hash of the input at position pos (1-based): it commits
\* to every outpoint, to the outputs and to the input being signed
SigHash(p, pos) ==
    [txid |-> p.ins[pos].hash, vout |-> p.ins[pos].index, at |-> pos,
     prevouts |-> [i \in 1..Len(p.ins) |-> <<p.ins[i].hash, p.ins[i].index>>],
     outs |-> p.outs,
     script |-> p.ins[pos].witnessUtxo.script,
     value |-> p.ins[pos].witnessUtxo.value]

\* The forms of a signer answer: lengths of r and s (hex digits)
SigShapes == { [rlen |-> 64, slen |-> 64], [rlen |-> 62, slen |-> 64],
               [rlen |-> 66, slen |-> 64] }

\* this.signer(hash): the MPC signature over hash, in one of the forms
Sign(hash, shape) ==
    [big_r |-> [affine_point |-> <<0, 2>> \o HexOf(shape.rlen, hash.txid % 16)],
     s |-> [scalar |-> HexOf(shape.slen, hash.at)],
     recovery_id |-> 0]

Event(e, ph, arg) == [e |-> e, ph |-> ph, arg |-> arg]

Fail(q, msg) ==
    /\ pc' = [pc EXCEPT ![q] = "failed"]
    /\ result' = [result EXCEPT ![q] = Thrown(msg)]

\* the call: await fetchDerivedBTCAddressAndPublicKey(...)
HandleTransaction(q, n, outs) ==
    /\ pc[q] = "idle"
    /\ pc' = [pc EXCEPT ![q] = "derive"]
    /\ inputs' = [inputs EXCEPT ![q] = UTXOs(q, n)]
    /\ outputs' = [outputs EXCEPT ![q] = outs]
    /\ trace' = [trace EXCEPT ![q] = <<Event("derive", "call", 0)>>]
    /\ UNCHANGED <<fetch, psbt, index, signing, txHex, result, storeVars, pureVars>>

\* the key derivation settles; on success the Psbt is created and inputs.map
\* issues one fetchTransaction per UTXO; with no UTXO, Promise.all([]) resolves
\* and the outputs are added at once
DeriveDone(q, ok) ==
    /\ pc[q] = "derive"
    /\ IF ok
       THEN LET n == Len(inputs[q])
            IN  /\ fetch' = [fetch EXCEPT ![q] = [i \in 1..n |-> "pending"]]
                /\ trace' = [trace EXCEPT ![q] =
                        @ \o <<Event("derive", "ok", 0)>>
                          \o [i \in 1..n |-> Event("fetch", "call", i - 1)]]
                /\ psbt' = [psbt EXCEPT ![q] =
                        IF n = 0 THEN AddOutputs(EmptyPsbt, outputs[q]) ELSE EmptyPsbt]
                /\ pc' = [pc EXCEPT ![q] = IF n = 0 THEN "signing" ELSE "fetching"]
                /\ UNCHANGED result
       ELSE /\ Fail(q, "derive")
            /\ trace' = [trace EXCEPT ![q] = @ \o <<Event("derive", "err", 0)>>]
            /\ UNCHANGED <<fetch, psbt>>
    /\ UNCHANGED <<inputs, outputs, index, signing, txHex, storeVars, pureVars>>

\* one fetchTransaction settles: its callback adds the input to the Psbt; the
\* last one lets Promise.all resolve, a failed one makes it reject
FetchComplete(q, i, ok) ==
    /\ i \in DOMAIN fetch[q]
    /\ fetch[q][i] = "pending"
    /\ fetch' = [fetch EXCEPT ![q][i] = IF ok THEN "ok" ELSE "failed"]
    /\ trace' = [trace EXCEPT ![q] =
            @ \o <<Event("fetch", IF ok THEN "ok" ELSE "err", i - 1)>>]
    /\ IF ok
       THEN LET added == [psbt[q] EXCEPT !.ins = Append(@, InputOf(inputs[q][i]))]
                all == \A j \in DOMAIN fetch[q] : fetch'[q][j] = "ok"
            IN  IF pc[q] = "fetching" /\ all
                THEN /\ psbt' = [psbt EXCEPT ![q] = AddOutputs(added, outputs[q])]
                     /\ pc' = [pc EXCEPT ![q] = "signing"]
                     /\ UNCHANGED result
                ELSE /\ psbt' = [psbt EXCEPT ![q] = added]
                     /\ UNCHANGED <<pc, result>>
       ELSE /\ UNCHANGED psbt
            /\ IF pc[q] = "fetching"
               THEN Fail(q, "fetch")
               ELSE UNCHANGED <<pc, result>>
    /\ UNCHANGED <<inputs, outputs, index, signing, txHex, storeVars, pureVars>>

\* the for loop is at its head: the previous signInputAsync has been awaited
SignLoopNotAwaiting(q) == pc[q] \in {"signing", "awaitSigner"}

SignLoopReady(q) == pc[q] = "signing"

\* index < inputs.length is false
LoopDoneOneEarly(q) == index[q] >= Len(inputs[q]) - 1

LoopDone(q) == index[q] >= Len(inputs[q])

\* the Psbt input that signInputAsync(index, keyPair) updates (1-based)
SigTargetShifted(q) == ((index[q] + 1) % Len(psbt[q].ins)) + 1

SigTarget(q) == index[q] + 1

\* where the call goes when the signer, or parsing its answer, throws
OnSignErrorRetry == "signing"

OnSignError == "failed"

\* psbt.signInputAsync(index, keyPair) up to this.signer(hash)
SignInput(q) ==
    /\ SignLoopReady(q)
    /\ ~LoopDone(q)
    /\ index[q] + 1 \in DOMAIN psbt[q].ins
    /\ signing' = [signing EXCEPT ![q] = SigHash(psbt[q], index[q] + 1)]
    /\ trace' = [trace EXCEPT ![q] = @ \o <<Event("sign", "call", index[q])>>]
    /\ pc' = [pc EXCEPT ![q] = "awaitSigner"]
    /\ UNCHANGED <<inputs, outputs, fetch, psbt, index, txHex, result, storeVars, pureVars>>

\* the signer rejects
SignerReject(q) ==
    /\ pc[q] = "awaitSigner"
    /\ trace' = [trace EXCEPT ![q] = @ \o <<Event("sign", "err", index[q])>>]
    /\ pc' = [pc EXCEPT ![q] = OnSignError]
    /\ result' = [result EXCEPT ![q] = Thrown("sign")]
    /\ signing' = [signing EXCEPT ![q] = NoHash]
    /\ UNCHANGED <<inputs, outputs, fetch, psbt, index, txHex, storeVars, pureVars>>

\* the signer answers: keyPair.sign returns parseRSVSignature(toRSV(sig)), which
\* signInputAsync stores as the input's partialSig; index += 1
SignerRespond(q, shape) ==
    /\ pc[q] = "awaitSigner"
    /\ LET parsed == parseRSVSignature(toRSV(Sign(signing[q], shape)))
       IN  IF parsed.ok /\ SigTarget(q) \in DOMAIN psbt[q].ins
           THEN /\ psbt' = [psbt EXCEPT ![q].ins[SigTarget(q)].partialSig = parsed.val]
                /\ index' = [index EXCEPT ![q] = @ + 1]
                /\ trace' = [trace EXCEPT ![q] = @ \o <<Event("sign", "ok", index[q])>>]
                /\ pc' = [pc EXCEPT ![q] = "signing"]
                /\ UNCHANGED result
           ELSE /\ trace' = [trace EXCEPT ![q] = @ \o <<Event("sign", "err", index[q])>>]
                /\ pc' = [pc EXCEPT ![q] = OnSignError]
                /\ result' = [result EXCEPT ![q] = Thrown("sign")]
                /\ UNCHANGED <<psbt, index>>
    /\ signing' = [signing EXCEPT ![q] = NoHash]
    /\ UNCHANGED <<inputs, outputs, fetch, txHex, storeVars, pureVars>>

\* psbt.finalizeAllInputs(): needs an input, and a partialSig on each
CanFinalizeAll(p) ==
    /\ Len(p.ins) >= 1
    /\ \A i \in DOMAIN p.ins : p.ins[i].partialSig # NoSig

FinalizeAllInputs(p) ==
    [p EXCEPT !.ins = [i \in DOMAIN p.ins |-> [p.ins[i] EXCEPT !.finalized = TRUE]]]

\* psbt.extractTransaction().toHex(): every input must be finalized
CanExtract(p) == \A i \in DOMAIN p.ins : p.ins[i].finalized

ExtractTransaction(p) ==
    [ins |-> [i \in DOMAIN p.ins |->
                [txid |-> p.ins[i].hash, vout |-> p.ins[i].index,
                 witness |-> p.ins[i].partialSig]],
     outs |-> p.outs]

\* after the loop: finalizeAllInputs, extractTransaction, sendTransaction's post
FinalizeAndSend(q) ==
    /\ SignLoopReady(q)
    /\ LoopDone(q)
    /\ IF CanFinalizeAll(psbt[q]) /\ CanExtract(FinalizeAllInputs(psbt[q]))
       THEN /\ psbt' = [psbt EXCEPT ![q] = FinalizeAllInputs(psbt[q])]
            /\ txHex' = [txHex EXCEPT ![q] = ExtractTransaction(psbt'[q])]
            /\ trace' = [trace EXCEPT ![q] =
                    @ \o <<Event("finalize", "ok", index[q]), Event("send", "call", 0)>>]
            /\ pc' = [pc EXCEPT ![q] = "broadcasting"]
            /\ UNCHANGED result
       ELSE /\ trace' = [trace EXCEPT ![q] = @ \o <<Event("finalize", "err", index[q])>>]
            /\ Fail(q, "finalize")
            /\ UNCHANGED <<psbt, txHex>>
    /\ UNCHANGED <<inputs, outputs, fetch, index, signing, storeVars, pureVars>>

\* what the provider answers to the post
BroadcastOutcomes == {"200", "200-empty", "non-200", "network-error"}

\* sendTransaction settles, and handleTransaction returns the txid or throws
BroadcastRespond(q, outcome) ==
    /\ pc[q] = "broadcasting"
    /\ IF outcome = "200"
       THEN /\ pc' = [pc EXCEPT ![q] = "done"]
            /\ result' = [result EXCEPT ![q] = Returned(<<"txid", q>>)]
            /\ trace' = [trace EXCEPT ![q] = @ \o <<Event("send", "ok", 0)>>]
       ELSE IF outcome = "200-empty"
       THEN /\ Fail(q, "Failed to broadcast transaction")
            /\ trace' = [trace EXCEPT ![q] = @ \o <<Event("send", "ok", 0)>>]
       ELSE /\ Fail(q, "Error broadcasting transaction")
            /\ trace' = [trace EXCEPT ![q] = @ \o <<Event("send", "err", 0)>>]
    /\ UNCHANGED <<inputs, outputs, fetch, psbt, index, signing, txHex, storeVars, pureVars>>

BtcStep(q) ==
    \/ \E ok \in BOOLEAN : DeriveDone(q, ok)
    \/ \E i \in DOMAIN fetch[q], ok \in BOOLEAN : FetchComplete(q, i, ok)
    \/ SignInput(q)
    \/ SignerReject(q)
    \/ \E shape \in SigShapes : SignerRespond(q, shape)
    \/ FinalizeAndSend(q)
    \/ \E outcome \in BroadcastOutcomes : BroadcastRespond(q, outcome)

BtcInit(active) ==
    /\ pc = [q \in Requests |-> IF q \in active THEN "idle" ELSE "off"]
    /\ inputs = [q \in Requests |-> <<>>]
    /\ outputs = [q \in Requests |-> <<>>]
    /\ fetch = [q \in Requests |-> <<>>]
    /\ psbt = [q \in Requests |-> EmptyPsbt]
    /\ index = [q \in Requests |-> 0]
    /\ signing = [q \in Requests |-> NoHash]
    /\ txHex = [q \in Requests |-> NoTx]
    /\ result = [q \in Requests |-> Pending]
    /\ trace = [q \in Requests |-> <<>>]

(***************************************************************************)
(* JavaScript values, JSON and the EVM transaction store                   *)
(***************************************************************************)
Adapters == {"a1", "a2"}
Keys == {"k1", "k2"}
Fields == {"chainId", "nonce", "value"}

BigInt(n) == [t |-> "bigint", n |-> n, s |-> <<>>]
Number(n) == [t |-> "number", n |-> n, s |-> <<>>]
String(s) == [t |-> "string", n |-> 0, s |-> s]

\* decimal digits of a number below 100, and back
Digits(n) == IF n < 10 THEN <<n>> ELSE <<n \div 10, n % 10>>

\* EVMUnsignedTransaction values a caller can hold: chainId and value are
\* BigNumberish (attachGasAndNonce sets a bigint chainId), nonce is a number
Txs ==
    { [chainId |-> BigInt(1), nonce |-> Number(0), value |-> BigInt(5)],
      [chainId |-> BigInt(1), nonce |-> Number(0), value |-> String(<<5>>)],
      [chainId |-> String(<<1>>), nonce |-> Number(3), value |-> String(<<7>>)] }

BlankTx == [chainId |-> String(<<>>), nonce |-> String(<<>>), value |-> String(<<>>)]
Undefined == [defined |-> FALSE, tx |-> BlankTx]
Defined(tx) == [defined |-> TRUE, tx |-> tx]

\* the replacer of setTransaction: a bigint becomes its decimal string
Replacer(value) == IF value.t = "bigint" THEN String(Digits(value.n)) ELSE value

\* JSON text of one value: a number token or a string token
JsonToken(value) ==
    IF value.t = "number" THEN [j |-> "num", text |-> Digits(value.n)]
    ELSE [j |-> "str", text |-> value.s]

\* JSON.stringify(transaction, replacer): the text, field by field
Stringify(transaction) == [f \in Fields |-> JsonToken(Replacer(transaction[f]))]

\* JSON.parse(text)
JsonParse(text) ==
    [f \in Fields |->
        IF text[f].j = "num"
        THEN Number(IF Len(text[f].text) = 1 THEN text[f].text[1]
                    ELSE 10 * text[f].text[1] + text[f].text[2])
        ELSE String(text[f].text)]

NullItem == [present |-> FALSE, text |-> Stringify(BlankTx)]
Item(text) == [present |-> TRUE, text |-> text]

\* Storage.setItem ignoring the key: one slot for every key
SetItemOneSlot(storage, key, text) == [k \in Keys |-> Item(text)]

\* Storage.setItem / getItem / removeItem
SetItem(storage, key, text) == [storage EXCEPT ![key] = Item(text)]
GetItem(storage, key) == storage[key]
RemoveItem(storage, key) == [storage EXCEPT ![key] = NullItem]

\* getTransaction without the removeItem call
AfterGetNoRemove(storage, key, remove) == storage

\* getTransaction's effect on the storage
AfterGet(storage, key, remove) ==
    IF remove THEN RemoveItem(storage, key) ELSE storage

\* getTransaction's return value
GetResult(txSerialized) ==
    IF txSerialized.present THEN Defined(JsonParse(txSerialized.text)) ELSE Undefined

NoOp == [op |-> "none", by |-> "", key |-> "", remove |-> FALSE, ret |-> Undefined]

\* EVM.setTransaction(transaction, storageKey) of adapter a
SetTransaction(a, transaction, storageKey) ==
    /\ a \in adapters
    /\ LET serializedTransaction == Stringify(transaction)
       IN  localStorage' = SetItem(localStorage, storageKey, serializedTransaction)
    /\ stored' = [stored EXCEPT ![storageKey] = Defined(transaction)]
    /\ own' = [own EXCEPT ![a][storageKey] = Defined(transaction)]
    /\ touched' = [touched EXCEPT ![a] = @ \cup {storageKey}]
    /\ lastOp' = [op |-> "set", by |-> a, key |-> storageKey, remove |-> FALSE,
                  ret |-> Undefined]
    /\ UNCHANGED <<adapters, btcVars, pureVars>>

\* EVM.getTransaction(storageKey, {remove}) of adapter a
GetTransaction(a, storageKey, remove) ==
    /\ a \in adapters
    /\ LET txSerialized == GetItem(localStorage, storageKey)
       IN  /\ localStorage' = AfterGet(localStorage, storageKey, remove)
           /\ lastOp' = [op |-> "get", by |-> a, key |-> storageKey, remove |-> remove,
                         ret |-> GetResult(txSerialized)]
    /\ stored' = IF remove THEN [stored EXCEPT ![storageKey] = Undefined] ELSE stored
    /\ own' = IF remove THEN [own EXCEPT ![a][storageKey] = Undefined] ELSE own
    /\ touched' = IF remove THEN [touched EXCEPT ![a] = @ \cup {storageKey}] ELSE touched
    /\ UNCHANGED <<adapters, btcVars, pureVars>>

StoreStep ==
    \/ \E a \in Adapters, tx \in Txs, k \in Keys : SetTransaction(a, tx, k)
    \/ \E a \in Adapters, k \in Keys, remove \in BOOLEAN : GetTransaction(a, k, remove)

StoreInit(made) ==
    /\ adapters = made
    /\ localStorage = [k \in Keys |-> NullItem]
    /\ stored = [k \in Keys |-> Undefined]
    /\ own = [a \in Adapters |-> [k \in Keys |-> Undefined]]
    /\ touched = [a \in Adapters |-> {}]
    /\ lastOp = NoOp

(***************************************************************************)
(* EVM.parseSignature and EVM.addSignature                                 *)
(***************************************************************************)
\* BigNumberish to its number: what ethers.Transaction.from reads of a field
ToNumber(value) ==
    IF value.t = "string"
    THEN (IF Len(value.s) = 1 THEN value.s[1] ELSE 10 * value.s[1] + value.s[2])
    ELSE value.n

\* the signatures a caller may pass: well-formed ones and a short r
RSVs ==
    { [r |-> HexOf(64, 1), s |-> HexOf(64, 3), v |-> 27],
      [r |-> HexOf(64, 2), s |-> HexOf(64, 3), v |-> 28],
      [r |-> HexOf(64, 1), s |-> HexOf(64, 3), v |-> 5],
      [r |-> HexOf(62, 1), s |-> HexOf(64, 3), v |-> 27] }

\* ethers.Signature.from({r: 0x.., s: 0x.., v}): 32-byte r and s, v 27 or 28
parseSignature(signature) ==
    IF Len(signature.r) = 64 /\ Len(signature.s) = 64 /\ signature.v \in {27, 28}
    THEN Returned([r |-> signature.r, s |-> signature.s, yParity |-> signature.v - 27])
    ELSE Thrown("invalid signature")

\* mpcSignatures[0]: the first element, undefined for an empty list
FirstSignature(mpcSignatures) ==
    IF Len(mpcSignatures) >= 1 THEN Returned(mpcSignatures[1])
    ELSE Thrown("undefined")

\* EVM.addSignature({transaction, mpcSignatures}): the serialized signed
\* transaction, as the fields and the signature it carries
addSignature(transaction, mpcSignatures) ==
    LET first == FirstSignature(mpcSignatures)
    IN  IF ~first.ok THEN Thrown("TypeError")
        ELSE LET sig == parseSignature(first.val)
             IN  IF ~sig.ok THEN sig
                 ELSE Returned([fields |-> [f \in Fields |-> ToNumber(transaction[f])],
                                signature |-> sig.val])

SigLists == UNION { [1..n -> RSVs] : n \in 0..MaxSigs }

AddInit ==
    /\ addIn \in { [transaction |-> tx, mpcSignatures |-> l] : tx \in Txs, l \in SigLists }
    /\ addOut = Pending

AddIdle ==
    /\ addIn = [transaction |-> BlankTx, mpcSignatures |-> <<>>]
    /\ addOut = Pending

AddSignatureCall ==
    /\ addOut = Pending
    /\ addOut' = addSignature(addIn.transaction, addIn.mpcSignatures)
    /\ UNCHANGED <<addIn, rsvIn, rsvOut, najIn, najOut, btcVars, storeVars>>

(***************************************************************************)
(* parseRSVSignature as a function of its argument                         *)
(***************************************************************************)
RsvInit ==
    /\ rsvIn \in { [r |-> HexOf(rl, sr), s |-> HexOf(sl, 3), v |-> 0] :
                     rl \in 0..MaxHexLen, sl \in 0..MaxHexLen, sr \in {0, 5} }
    /\ rsvOut = Pending

RsvIdle ==
    /\ rsvIn = [r |-> <<>>, s |-> <<>>, v |-> 0]
    /\ rsvOut = Pending

ParseRSVCall ==
    /\ rsvOut = Pending
    /\ rsvOut' = parseRSVSignature(rsvIn)
    /\ UNCHANGED <<rsvIn, najIn, najOut, addIn, addOut, btcVars, storeVars>>

(***************************************************************************)
(* signature/utils.ts: najToPubKey                                         *)
(***************************************************************************)
\* a decoded key of a given length whose bytes depend on a seed
KeyBytes(len, seed) == [i \in 1..len |-> (seed + 3 * i) % 256]

\* najPubKey.split(':')[1] then base_decode: the bytes the part after the
\* colon decodes to; without a colon the part is undefined and decoding throws
Base58Part(najPubKey) ==
    IF najPubKey.colon THEN Returned(najPubKey.data) ELSE Thrown("base_decode")

\* the parity test taken on the first digit of y
IsEvenFirstDigit(y) == y[1] % 2 = 0

\* parseInt(y.slice(-1), 16) % 2 === 0
IsEven(y) == y[Len(y)] % 2 = 0

najToPubKey(najPubKey, options) ==
    LET decoded == Base58Part(najPubKey)
    IN  IF ~decoded.ok THEN decoded
        ELSE LET uncompressedPubKey == <<0, 4>> \o BufferToHex(decoded.val)
                 pubKeyHex == IF Slice(uncompressedPubKey, 0, 2) = <<0, 4>>
                              THEN Slice(uncompressedPubKey, 2, Len(uncompressedPubKey))
                              ELSE uncompressedPubKey
             IN  IF ~options.compress THEN Returned(uncompressedPubKey)
                 ELSE IF Len(pubKeyHex) # KeyHexLen
                 THEN Thrown("Invalid uncompressed public key length")
                 ELSE LET x == Slice(pubKeyHex, 0, CoordHexLen)
                          y == Slice(pubKeyHex, CoordHexLen, Len(pubKeyHex))
                          prefix == IF IsEven(y) THEN <<0, 2>> ELSE <<0, 3>>
                      IN  Returned(prefix \o x)

NajInit ==
    /\ najIn \in { [key |-> [colon |-> c, data |-> KeyBytes(len, seed)],
                    options |-> [compress |-> z]] :
                     c \in BOOLEAN, len \in 0..MaxKeyLen, seed \in 0..3, z \in BOOLEAN }
    /\ najOut = Pending

NajIdle ==
    /\ najIn = [key |-> [colon |-> FALSE, data |-> <<>>], options |-> [compress |-> FALSE]]
    /\ najOut = Pending

NajToPubKeyCall ==
    /\ najOut = Pending
    /\ najOut' = najToPubKey(najIn.key, najIn.options)
    /\ UNCHANGED <<najIn, rsvIn, rsvOut, addIn, addOut, btcVars, storeVars>>

(***************************************************************************)
(* Specifications                                                          *)
(***************************************************************************)
\* one handleTransaction call
Init == BtcInit({1}) /\ StoreInit({}) /\ RsvIdle /\ NajIdle /\ AddIdle

Next ==
    \/ \E n \in 0..MaxInputs, outs \in OutputChoices : HandleTransaction(1, n, outs)
    \/ BtcStep(1)

Spec == Init /\ [][Next]_vars

\* two unrelated requests at a time: two handleTransaction calls, or two EVM
\* adapters using the store.  The Bitcoin adapter never reads localStorage and
\* the store never reads a Psbt, so the two pairs are explored side by side.
ConcInit ==
    /\ \/ BtcInit({1, 2}) /\ StoreInit({})
       \/ BtcInit({}) /\ StoreInit(Adapters)
    /\ RsvIdle /\ NajIdle /\ AddIdle

ConcNext ==
    \/ \E q \in Requests, n \in 1..ConcInputs, outs \in OutputChoices :
            HandleTransaction(q, n, outs)
    \/ \E q \in Requests : BtcStep(q)
    \/ StoreStep

SpecConc == ConcInit /\ [][ConcNext]_vars

\* the EVM transaction store used by two adapters
StoreOnlyInit == BtcInit({}) /\ StoreInit(Adapters) /\ RsvIdle /\ NajIdle /\ AddIdle

SpecStore == StoreOnlyInit /\ [][StoreStep]_vars

\* parseRSVSignature on every argument of the bounded set
RsvSpecInit == BtcInit({}) /\ StoreInit({}) /\ RsvInit /\ NajIdle /\ AddIdle

SpecRsv == RsvSpecInit /\ [][ParseRSVCall]_vars

\* najToPubKey on every argument of the bounded set
NajSpecInit == BtcInit({}) /\ StoreInit({}) /\ RsvIdle /\ NajInit /\ AddIdle

SpecNaj == NajSpecInit /\ [][NajToPubKeyCall]_vars

\* addSignature on every argument of the bounded set
AddSpecInit == BtcInit({}) /\ StoreInit({}) /\ RsvIdle /\ NajIdle /\ AddInit

SpecAdd == AddSpecInit /\ [][AddSignatureCall]_vars

(***************************************************************************)
(* Properties                                                              *)
(***************************************************************************)
IsSign(ev) == ev.e = "sign"
SignEvents(q) == SelectSeq(trace[q], IsSign)

HasEvent(q, e, ph) == \E j \in DOMAIN trace[q] : trace[q][j].e = e /\ trace[q][j].ph = ph

\* C1: the signer is asked for input 0, 1, ..., each request is issued only
\* after the previous one was answered: the signer events of a call alternate
\* request, answer, request, answer with indices 0, 0, 1, 1, ...
C1_SequentialSigning ==
    \A q \in Requests :
        LET s == SignEvents(q)
        IN  \A j \in DOMAIN s :
                /\ s[j].arg = (j - 1) \div 2
                /\ s[j].arg < Len(inputs[q])
                /\ (j % 2 = 1) => s[j].ph = "call"
                /\ (j % 2 = 0) => s[j].ph \in {"ok", "err"}

\* two inputs were requested and answered, in turn
C1_Witness ==
    \E q \in Requests :
        /\ Len(SignEvents(q)) >= 4
        /\ SignEvents(q)[3] = Event("sign", "call", 1)
        /\ SignEvents(q)[4] = Event("sign", "ok", 1)

Signed(q, i) == i \in DOMAIN psbt[q].ins /\ psbt[q].ins[i].partialSig # NoSig

\* C2: the inputs are signed one after the other (exactly the first index[q]
\* inputs carry a signature), finalization is attempted only when each of the
\* n inputs is signed, and a transaction is extracted and given to
\* sendTransaction only when all n inputs are signed and finalized
C2_FinalizedGate ==
    \A q \in Requests :
        /\ \A i \in DOMAIN psbt[q].ins : Signed(q, i) <=> i <= index[q]
        /\ (\E i \in DOMAIN psbt[q].ins : psbt[q].ins[i].finalized)
              => \A i \in DOMAIN psbt[q].ins : Signed(q, i)
        /\ (\E j \in DOMAIN trace[q] : trace[q][j].e = "finalize")
              => \A i \in 1..Len(inputs[q]) : Signed(q, i)
        /\ (txHex[q] # NoTx \/ pc[q] \in {"broadcasting", "done"} \/ HasEvent(q, "send", "call"))
              => /\ Len(inputs[q]) >= 1
                 /\ Len(psbt[q].ins) = Len(inputs[q])
                 /\ \A i \in DOMAIN psbt[q].ins : Signed(q, i) /\ psbt[q].ins[i].finalized
                 /\ Len(txHex[q].ins) = Len(inputs[q])
                 /\ \A i \in DOMAIN txHex[q].ins : txHex[q].ins[i].witness # NoSig

\* a two-input transaction was extracted and broadcast
C2_Witness ==
    \E q \in Requests : pc[q] = "done" /\ Len(inputs[q]) = 2 /\ Len(txHex[q].ins) = 2

\* the signature bytes the signer's answer for the hash of input i turns into
IsSignatureOver(sig, hash) ==
    \E shape \in SigShapes : parseRSVSignature(toRSV(Sign(hash, shape))) = Returned(sig)

\* C3: a signature held by input i of the Psbt, and the witness of input i of
\* the extracted transaction, is the signer's answer for the signing hash of
\* input i
C3_SignatureOnItsInput ==
    \A q \in Requests :
        /\ \A i \in DOMAIN psbt[q].ins :
              Signed(q, i) => IsSignatureOver(psbt[q].ins[i].partialSig, SigHash(psbt[q], i))
        /\ \A i \in DOMAIN txHex[q].ins :
              /\ txHex[q].ins[i].txid = psbt[q].ins[i].hash
              /\ IsSignatureOver(txHex[q].ins[i].witness, SigHash(psbt[q], i))

\* both inputs of a two-input transaction hold a signature
C3_Witness ==
    \E q \in Requests : Len(psbt[q].ins) = 2 /\ Signed(q, 1) /\ Signed(q, 2)

\* C5: no collaborator call is issued twice, a failed call ends the request
\* with an error, no signer request follows a failed one, sendTransaction is
\* not called after a failed fetch, signature or finalization, and nothing is
\* called after a failed broadcast
C5_NoRetry ==
    \A q \in Requests :
        LET tr == trace[q]
        IN  /\ \A i, j \in DOMAIN tr :
                  (i < j /\ tr[i].ph = "call" /\ tr[j].ph = "call") => tr[i] # tr[j]
            /\ \A j \in DOMAIN tr :
                  tr[j].ph = "err" =>
                      /\ pc[q] = "failed"
                      /\ ~result[q].ok /\ result[q] # Pending
                      /\ \A m \in DOMAIN tr : ~(m > j /\ tr[m].ph = "call")
                      /\ tr[j].e \in {"derive", "fetch", "sign", "finalize"}
                            => ~HasEvent(q, "send", "call")
                      /\ tr[j].e \in {"derive", "fetch"} => ~HasEvent(q, "sign", "call")

\* the signer failed on the second input
C5_Witness ==
    \E q \in Requests :
        /\ HasEvent(q, "sign", "err")
        /\ trace[q][Len(trace[q])] = Event("sign", "err", 1)
        /\ pc[q] = "failed"

\* C9 (as claimed): input i of the assembled and of the broadcast transaction
\* is the i-th UTXO of the request, whatever the order the fetches complete in
C9_InputOrderKept ==
    \A q \in Requests :
        /\ pc[q] \in {"signing", "awaitSigner", "broadcasting", "done"}
              => \A i \in DOMAIN psbt[q].ins : psbt[q].ins[i].hash = inputs[q][i].txid
        /\ \A i \in DOMAIN txHex[q].ins : txHex[q].ins[i].txid = inputs[q][i].txid

\* what a call of request q alone can hold: inputs, outputs, hashes, signatures
\* and results made of q's own data
OwnTxids(q) == { inputs[q][i].txid : i \in DOMAIN inputs[q] }

BtcIsolated ==
    \A q \in Requests :
        /\ \A i \in DOMAIN psbt[q].ins : psbt[q].ins[i].hash \in OwnTxids(q)
        /\ psbt[q].outs \in {<<>>, AddOutputs(EmptyPsbt, outputs[q]).outs}
        /\ signing[q] # NoHash => signing[q] = SigHash(psbt[q], index[q] + 1)
        /\ \A i \in DOMAIN psbt[q].ins :
              Signed(q, i) => IsSignatureOver(psbt[q].ins[i].partialSig, SigHash(psbt[q], i))
        /\ txHex[q] # NoTx => txHex[q] = ExtractTransaction(psbt[q])
        /\ result[q].ok => result[q].val = <<"txid", q>>

OtherAdapter(a) == CHOOSE b \in Adapters : b # a

\* what getTransaction returns to an adapter that runs alone
AloneResult(view) ==
    IF view.defined THEN GetResult(Item(Stringify(view.tx))) ELSE Undefined

\* a getTransaction step returns what the calling adapter would get alone
GetAsIfAlone == lastOp'.op = "get" => lastOp'.ret = AloneResult(own[lastOp'.by][lastOp'.key])

\* C4 (as claimed): whatever the other request does, a request observes what
\* it would observe alone: a Bitcoin call holds only its own data, and
\* getTransaction returns what the calling adapter itself stored
C4_NoSharedState == []BtcIsolated /\ [][GetAsIfAlone]_vars

\* the same, for a key the other adapter has not written or removed
GetAsIfAloneOnOwnKey ==
    (lastOp'.op = "get" /\ lastOp'.key \notin touched[OtherAdapter(lastOp'.by)])
        => lastOp'.ret = AloneResult(own[lastOp'.by][lastOp'.key])

\* C4 (amended): two concurrent handleTransaction calls share no state, and
\* getTransaction returns what the calling adapter would get alone for every
\* storage key the other adapter has not written or removed; the adapters
\* share window.localStorage, so requests using one key see each other
C4_NoSharedStateOnOwnKeys == []BtcIsolated /\ [][GetAsIfAloneOnOwnKey]_vars

\* an adapter read back its transaction while the other used another key
C4_Witness ==
    /\ lastOp.op = "get"
    /\ lastOp.ret.defined
    /\ touched[OtherAdapter(lastOp.by)] # {}
    /\ lastOp.key \notin touched[OtherAdapter(lastOp.by)]

\* C10 (as claimed): getTransaction(k) returns the transaction most recently
\* stored under k, or undefined
C10_GetReturnsStored == [][lastOp'.op = "get" => lastOp'.ret = stored[lastOp'.key]]_vars

\* a transaction after JSON: bigint fields are decimal strings, the rest is kept
AsJson(tx) == [f \in Fields |-> IF tx[f].t = "bigint" THEN String(Digits(tx[f].n)) ELSE tx[f]]

StoreContract ==
    /\ lastOp'.op = "get" =>
          /\ lastOp'.ret = IF stored[lastOp'.key].defined
                           THEN Defined(AsJson(stored[lastOp'.key].tx)) ELSE Undefined
          /\ lastOp'.remove => ~localStorage'[lastOp'.key].present
          /\ ~lastOp'.remove => localStorage' = localStorage
    /\ lastOp'.op = "set" =>
          /\ localStorage'[lastOp'.key].present
          /\ stored'[lastOp'.key].defined
    /\ \A k \in Keys : k # lastOp'.key => localStorage'[k] = localStorage[k]

\* C10 (amended): getTransaction(k) returns the transaction most recently
\* stored under k with its bigint fields as decimal strings, or undefined if
\* nothing is stored under k; with remove it leaves k absent, without remove
\* it leaves the store unchanged, and no call changes another key's entry
C10_StoreContract == [][StoreContract]_vars

\* a stored transaction with a bigint field was read back and removed
C10_Witness ==
    /\ lastOp.op = "get" /\ lastOp.remove
    /\ lastOp.ret.defined
    /\ lastOp.ret.tx.chainId = String(<<1>>)
    /\ ~localStorage[lastOp.key].present
    /\ \E k \in Keys : localStorage[k].present

\* r (or s) as 32 bytes: its hex digits left-padded with zeros to 64 digits
LeftPadded32(h) == BufferFromHex([i \in 1..(SigHexLen - Len(h)) |-> 0] \o h)

\* C6 (as claimed): parseRSVSignature fails or returns exactly 64 bytes, which
\* are r left-padded to 32 bytes followed by s left-padded to 32 bytes
C6_SixtyFourBytesOrFail ==
    (rsvOut # Pending /\ rsvOut.ok) =>
        /\ Len(rsvOut.val) = 64
        /\ Len(rsvIn.r) <= 64 /\ Len(rsvIn.s) <= 64
        /\ rsvOut.val = LeftPadded32(rsvIn.r) \o LeftPadded32(rsvIn.s)

\* C7 (as claimed): addSignature yields a signed transaction only from a list
\* of exactly one signature, and then with that signature attached
C7_ExactlyOneSignature ==
    (addOut # Pending) =>
        /\ addOut.ok => Len(addIn.mpcSignatures) = 1
        /\ addOut.ok => addOut.val.signature.r = addIn.mpcSignatures[1].r
        /\ Len(addIn.mpcSignatures) # 1 => ~addOut.ok

\* C8: with compress, najToPubKey fails or returns 66 hex digits: 02 for an
\* even, 03 for an odd y, then the x coordinate that the uncompressed form
\* shows after its 04; it fails when the decoded key is not 64 bytes
C8_CompressedKey ==
    (najOut # Pending /\ najIn.options.compress) =>
        LET data == najIn.key.data
            plain == najToPubKey(najIn.key, [compress |-> FALSE])
        IN  /\ najOut.ok =>
                  /\ Len(najOut.val) = 66
                  /\ najIn.key.colon /\ Len(data) = 64
                  /\ SubSeq(najOut.val, 1, 2) = (IF data[64] % 2 = 0 THEN <<0, 2>> ELSE <<0, 3>>)
                  /\ plain.ok /\ SubSeq(plain.val, 1, 2) = <<0, 4>>
                  /\ SubSeq(najOut.val, 3, 66) = SubSeq(plain.val, 3, 66)
                  /\ SubSeq(najOut.val, 3, 66) = BufferToHex(SubSeq(data, 1, 32))
            /\ (~najIn.key.colon \/ Len(data) # 64) => ~najOut.ok

\* a key with an odd y was compressed
C8_Witness ==
    /\ najIn.options.compress /\ najOut.ok
    /\ SubSeq(najOut.val, 1, 2) = <<0, 3>>

====
